---------------------------- MODULE Spec2Model ----------------------------
(***************************************************************************)
(* A model of win32-displayconfig's JavaScript layer (src/index.js):       *)
(*   - extractDisplayConfig: the join of the raw path / mode / name arrays *)
(*   - restoreDisplayConfig and toggleEnabledDisplays: the reconciliation  *)
(*     of a requested display state against the live one                   *)
(*   - the display-change cache: currentDisplayConfig, the promise chain   *)
(*     that serialises updates, and the listener set.                      *)
(* The native addon (win32_queryDisplayConfig, win32_restoreDisplayConfig, *)
(* win32_toggleEnabledDisplays, win32_listenForDisplayChanges,             *)
(* win32_stopListeningForDisplayChanges) is not part of the JavaScript     *)
(* source; it is modelled as the environment: every call is one pending    *)
(* operation that is answered by exactly one completion.                   *)
(***************************************************************************)
EXTENDS Integers, Sequences, FiniteSets, TLC

VARIABLES
    \* ---- extractDisplayConfig applied to a raw configuration
    raw,                    \* the raw {pathArray, modeArray, nameArray}
    extracted,              \* the value extractDisplayConfig returned
    xpc,                    \* "input" | "extracted" | "captured"
    forRestoration,         \* what displayConfigForRestoration returned
    \* ---- one restoreDisplayConfig / toggleEnabledDisplays call
    pc,                     \* position of the async call
    args,                   \* the argument of the call
    currentConfig,          \* restoreDisplayConfig's local of that name
    displayConfig,          \* toggleEnabledDisplays' local of that name
    applyCalls,             \* calls of addon.win32_restoreDisplayConfig
    toggleCalls,            \* calls of module.exports.toggleEnabledDisplays
    rawToggleCalls,         \* calls of addon.win32_toggleEnabledDisplays
    queryCalls,             \* number of calls of addon.win32_queryDisplayConfig
    reported,               \* statuses the raw primitives reported, in order
    outcome,                \* how the promise of the call settled
    \* ---- the display-change cache
    currentDisplayConfig,   \* the module-level cache
    displayChangeCallbacks, \* the listener Set, in insertion order
    pulses,                 \* number of change pulses delivered without error
    chained,                \* number of updates chained onto the promise
    settled,                \* number of updates whose promise has settled
    running,                \* the updates that have started and not finished
    updateLog,              \* the updates in the order they started
    listening,              \* is the native change registration active
    nativeCalls,            \* listen / stop calls made by the last step
    delivered,              \* listener invocations made by the last step
    lastGood,               \* what the last successful extraction returned
    lastFailed              \* did the last finished extraction fail

extractVars == <<raw, extracted, xpc, forRestoration>>
restoreVars == <<pc, args, currentConfig, displayConfig, applyCalls, toggleCalls,
                 rawToggleCalls, queryCalls, reported, outcome>>
notifyVars  == <<currentDisplayConfig, displayChangeCallbacks, pulses, chained,
                 settled, running, updateLog, listening, nativeCalls,
                 delivered, lastGood, lastFailed>>
vars == <<extractVars, restoreVars, notifyVars>>

-----------------------------------------------------------------------------
(* Bounds of the model *)

\* longest pathArray the raw query returns
MaxPaths == 2
\* longest args.config of a restoreDisplayConfig request
MaxReq == 3
\* number of native change pulses
MaxPulses == 3

-----------------------------------------------------------------------------
(* JavaScript values *)

\* `undefined` where a buffer or a base64 string is expected: buffers are
\* sequences of bytes and strings are sequences of characters, so a one
\* element sequence holding -1 is neither.
Undefined == << -1 >>

\* `undefined` where an array of device paths is expected
UndefinedList == << "undefined" >>

\* `undefined` where an array of display entries is expected
UndefinedConfig == << [devicePath |-> "undefined"] >>

\* `undefined` where a number-valued payload is expected
UndefinedPayload == -1

RECURSIVE SeqToSet(_)
SeqToSet(s) == IF s = <<>> THEN {} ELSE {Head(s)} \cup SeqToSet(Tail(s))

\* Array.prototype.indexOf(x) >= 0
Includes(s, x) == \E i \in DOMAIN s : s[i] = x

RECURSIVE SelectSeqBy(_, _)
\* Array.prototype.filter over a sequence with a membership test
SelectSeqBy(s, keep) ==
    IF s = <<>> THEN <<>>
    ELSE (IF Head(s) \in keep THEN <<Head(s)>> ELSE <<>>)
         \o SelectSeqBy(Tail(s), keep)

\* all sequences over S of length at most n
SeqsUpTo(S, n) == UNION {[1..k -> S] : k \in 0..n}

-----------------------------------------------------------------------------
(* Buffer.toString("base64") and Buffer.from(string, "base64").  A buffer  *)
(* is a sequence of bytes; a base64 string is a sequence of characters,    *)
(* each written as its 6-bit value, with 64 for the padding character '='. *)

Pad == 64

RECURSIVE Base64Encode(_)
Base64Encode(b) ==
    IF b = <<>> THEN <<>>
    ELSE IF Len(b) = 1 THEN
        << b[1] \div 4, (b[1] % 4) * 16, Pad, Pad >>
    ELSE IF Len(b) = 2 THEN
        << b[1] \div 4, (b[1] % 4) * 16 + (b[2] \div 16), (b[2] % 16) * 4, Pad >>
    ELSE
        << b[1] \div 4, (b[1] % 4) * 16 + (b[2] \div 16),
           (b[2] % 16) * 4 + (b[3] \div 64), b[3] % 64 >>
        \o Base64Encode(SubSeq(b, 4, Len(b)))

RECURSIVE Base64Sextets(_)
\* the characters of a base64 string up to its padding
Base64Sextets(s) ==
    IF s = <<>> \/ Head(s) = Pad THEN <<>>
    ELSE <<Head(s)>> \o Base64Sextets(Tail(s))

RECURSIVE Base64Bytes(_)
Base64Bytes(c) ==
    IF Len(c) < 2 THEN <<>>
    ELSE IF Len(c) = 2 THEN
        << c[1] * 4 + (c[2] \div 16) >>
    ELSE IF Len(c) = 3 THEN
        << c[1] * 4 + (c[2] \div 16), (c[2] % 16) * 16 + (c[3] \div 4) >>
    ELSE
        << c[1] * 4 + (c[2] \div 16), (c[2] % 16) * 16 + (c[3] \div 4),
           (c[3] % 4) * 64 + c[4] >>
        \o Base64Bytes(SubSeq(c, 5, Len(c)))

Base64Decode(s) == Base64Bytes(Base64Sextets(s))

-----------------------------------------------------------------------------
(* The raw configuration the query primitive returns *)

AdapterId(high) == [LowPart |-> 1, HighPart |-> high]

\* modeInfoIdx values: the two slots of the mode array, and an index past
\* its end (the "no mode" value of an inactive path)
ModeIdx == {0, 1, 2}

\* outputTechnology values: 0 (falsy) and a non-zero technology
OutputTechnologies == {0, 5}

PathValue(flags, sourceModeIdx, targetModeIdx, id, tech) ==
    [flags      |-> flags,
     sourceInfo |-> [adapterId |-> AdapterId(0), id |-> id - 1,
                     modeInfoIdx |-> sourceModeIdx],
     targetInfo |-> [adapterId |-> AdapterId(0), id |-> id,
                     outputTechnology |-> tech, rotation |-> 1, scaling |-> 1,
                     modeInfoIdx |-> targetModeIdx]]

\* for target 1: every combination of flags and target mode index with a
\* source index pointing at slot 0, and every combination of the other
\* source indices and target mode index on an active path; and the settled
\* path of target 2 and of a target with no output technology
PathValues ==
    { PathValue(f, 0, t, 1, 5) : f \in {0, 1, 2}, t \in ModeIdx }
    \cup { PathValue(1, s, t, 1, 5) : s \in {1, 2}, t \in ModeIdx }
    \cup { PathValue(1, 0, 1, 2, 5), PathValue(1, 0, 1, 1, 0) }

\* the element of pathArray at (1-based) position i: the decoded value and
\* the raw bytes it was decoded from
PathRecord(value, i) == [value |-> value, buffer |-> <<16 + i>>]

ModeRecord(infoType, i) ==
    [value  |-> [infoType |-> infoType, payload |-> 100 + i],
     buffer |-> <<32 + i, i>>]

ModeArrays ==
    { << ModeRecord("source", 1), ModeRecord("target", 2) >>,
      << ModeRecord("target", 1), ModeRecord("source", 2) >> }

NameRecord(high, id, tech, devicePath) ==
    [adapterId |-> AdapterId(high), id |-> id, outputTechnology |-> tech,
     monitorFriendlyDeviceName |-> devicePath,
     monitorDevicePath |-> devicePath]

NameArrays ==
    { << NameRecord(0, 1, 5, "A"), NameRecord(0, 2, 5, "B") >>,
      << NameRecord(0, 1, 5, "A"), NameRecord(0, 2, 5, "A") >>,
      << NameRecord(0, 1, 5, ""), NameRecord(0, 1, 0, "B"),
         NameRecord(1, 1, 5, "B"), NameRecord(0, 1, 5, "A"),
         NameRecord(0, 1, 5, "B") >>,
      << NameRecord(0, 1, 5, ""), NameRecord(0, 2, 5, "B") >>,
      << NameRecord(0, 1, 0, "A"), NameRecord(0, 2, 5, "B") >>,
      << NameRecord(1, 1, 5, "A"), NameRecord(0, 2, 5, "B") >> }

RawConfig(values, modeArray, nameArray) ==
    [pathArray |-> [i \in DOMAIN values |-> PathRecord(values[i], i)],
     modeArray |-> modeArray,
     nameArray |-> nameArray]

RawConfigs ==
    { RawConfig(values, m, n) :
        values \in SeqsUpTo(PathValues, MaxPaths), m \in ModeArrays, n \in NameArrays }

-----------------------------------------------------------------------------
(* extractDisplayConfig *)

\* array[idx] for a 0-based idx: `undefined` past the end of the array
UndefinedMode == [value |-> [infoType |-> "undefined", payload |-> UndefinedPayload],
                  buffer |-> Undefined]

ArrayAt(array, idx) ==
    IF idx + 1 \in DOMAIN array THEN array[idx + 1] ELSE UndefinedMode

\* the test of the flags reading any set bit as active
FlagsNonZero(flags) == flags # 0

\* value.flags & (1 === 1): the bitwise AND with ToInt32(true) = 1
FlagsActive(flags) == (flags % 2) # 0

\* the predicate of config.nameArray.find
NameMatches(n, targetInfo) ==
    /\ n.adapterId.LowPart = targetInfo.adapterId.LowPart
    /\ n.adapterId.HighPart = targetInfo.adapterId.HighPart
    /\ n.id = targetInfo.id
    /\ n.outputTechnology # 0
    /\ targetInfo.outputTechnology # 0
    /\ n.monitorDevicePath # ""

\* Array.prototype.find: the position of the first match, 0 for undefined
FindName(nameArray, targetInfo) ==
    LET hits == {i \in DOMAIN nameArray : NameMatches(nameArray[i], targetInfo)}
    IN  IF hits = {} THEN 0 ELSE CHOOSE i \in hits : \A j \in hits : i <= j

\* SourceModeUsable without the check of the tag
SourceModeUsableAnyTag(sourceMode) == sourceMode # UndefinedMode

\* does the loop body go on past the checks of the source mode
SourceModeUsable(sourceMode) ==
    /\ sourceMode # UndefinedMode
    /\ sourceMode.value.infoType = "source"

\* one iteration of the loop over config.pathArray: the entries it pushes
ExtractPath(config, path) ==
    LET value      == path.value
        sourceInfo == value.sourceInfo
        targetInfo == value.targetInfo
        nameIdx    == FindName(config.nameArray, targetInfo)
        sourceMode == ArrayAt(config.modeArray, sourceInfo.modeInfoIdx)
        targetMode == ArrayAt(config.modeArray, targetInfo.modeInfoIdx)
        inUse      == IF targetMode = UndefinedMode THEN FALSE
                      ELSE FlagsActive(value.flags)
        attach     == targetMode # UndefinedMode
                      /\ targetMode.value.infoType = "target"
    IN  IF nameIdx = 0 THEN <<>>
        ELSE IF ~SourceModeUsable(sourceMode) THEN <<>>
        ELSE << [displayName      |-> config.nameArray[nameIdx].monitorFriendlyDeviceName,
                 devicePath       |-> config.nameArray[nameIdx].monitorDevicePath,
                 sourceConfigId   |-> [adapterId |-> sourceInfo.adapterId,
                                       id |-> sourceInfo.id],
                 targetConfigId   |-> [adapterId |-> targetInfo.adapterId,
                                       id |-> targetInfo.id],
                 inUse            |-> inUse,
                 outputTechnology |-> targetInfo.outputTechnology,
                 rotation         |-> targetInfo.rotation,
                 scaling          |-> targetInfo.scaling,
                 sourceMode       |-> sourceMode.value.payload,
                 pathBuffer       |-> path.buffer,
                 sourceModeBuffer |-> sourceMode.buffer,
                 targetVideoSignalInfo |->
                     IF attach THEN targetMode.value.payload ELSE UndefinedPayload,
                 targetModeBuffer |->
                     IF attach THEN targetMode.buffer ELSE Undefined] >>

RECURSIVE ExtractLoop(_, _)
ExtractLoop(config, paths) ==
    IF paths = <<>> THEN <<>>
    ELSE ExtractPath(config, Head(paths)) \o ExtractLoop(config, Tail(paths))

extractDisplayConfig(config) == ExtractLoop(config, config.pathArray)

-----------------------------------------------------------------------------
(* Specification of extractDisplayConfig over the raw configurations *)

NotRun == << >>

ExtractInit ==
    /\ raw \in RawConfigs
    /\ extracted = NotRun
    /\ xpc = "input"
    /\ forRestoration = NotRun
    /\ pc = "off"
    /\ args = [op |-> "none"]
    /\ currentConfig = NotRun
    /\ displayConfig = NotRun
    /\ applyCalls = <<>>
    /\ toggleCalls = <<>>
    /\ rawToggleCalls = <<>>
    /\ queryCalls = 0
    /\ reported = <<>>
    /\ outcome = [status |-> "none"]
    /\ currentDisplayConfig = UndefinedConfig
    /\ displayChangeCallbacks = <<>>
    /\ pulses = 0
    /\ chained = 0
    /\ settled = 0
    /\ running = {}
    /\ updateLog = <<>>
    /\ listening = FALSE
    /\ nativeCalls = <<>>
    /\ delivered = <<>>
    /\ lastGood = UndefinedConfig
    /\ lastFailed = FALSE

Extract ==
    /\ xpc = "input"
    /\ extracted' = extractDisplayConfig(raw)
    /\ xpc' = "extracted"
    /\ UNCHANGED <<raw, forRestoration, restoreVars, notifyVars>>

\* the filter of displayConfigForRestoration skipping what the device-path
\* lookup of restoreDisplayConfig skips
CaptureSkipsActiveWithoutTarget(entry) ==
    entry.inUse /\ entry.targetModeBuffer = Undefined

\* !entry.inUse || entry.targetModeBuffer === undefined
CaptureSkips(entry) ==
    ~entry.inUse \/ entry.targetModeBuffer = Undefined

RECURSIVE CaptureLoop(_)
CaptureLoop(conf) ==
    IF conf = <<>> THEN <<>>
    ELSE IF CaptureSkips(Head(conf)) THEN CaptureLoop(Tail(conf))
    ELSE << [devicePath       |-> Head(conf).devicePath,
             pathBuffer       |-> Base64Encode(Head(conf).pathBuffer),
             sourceModeBuffer |-> Base64Encode(Head(conf).sourceModeBuffer),
             targetModeBuffer |-> Base64Encode(Head(conf).targetModeBuffer)] >>
         \o CaptureLoop(Tail(conf))

displayConfigForRestoration(conf) == CaptureLoop(conf)

\* one call of displayConfigForRestoration: the query is answered with raw
Capture ==
    /\ xpc = "input"
    /\ extracted' = extractDisplayConfig(raw)
    /\ forRestoration' = displayConfigForRestoration(extracted')
    /\ xpc' = "captured"
    /\ UNCHANGED <<raw, restoreVars, notifyVars>>

ExtractNext ==
    \/ Extract
    \/ Capture

SpecExtract == ExtractInit /\ [][ExtractNext]_vars

-----------------------------------------------------------------------------
(* restoreDisplayConfig and toggleEnabledDisplays: inputs *)

DevicePaths == {"A", "B", "C"}

\* the bytes a snapshot stored for a device: none of them is a buffer of
\* the live configuration
StoredByte(devicePath) ==
    IF devicePath = "A" THEN 201 ELSE IF devicePath = "B" THEN 202 ELSE 203

\* a "desired enabled" item, as displayConfigForRestoration writes it
EnabledItem(devicePath) ==
    [devicePath       |-> devicePath,
     pathBuffer       |-> Base64Encode(<<StoredByte(devicePath)>>),
     sourceModeBuffer |-> Base64Encode(<<StoredByte(devicePath), 7>>),
     targetModeBuffer |-> Base64Encode(<<StoredByte(devicePath), 7, 255>>)]

\* a "desired disabled" item: no targetModeBuffer
DisabledItem(devicePath) ==
    [devicePath       |-> devicePath,
     pathBuffer       |-> Undefined,
     sourceModeBuffer |-> Undefined,
     targetModeBuffer |-> Undefined]

RequestItems ==
    {EnabledItem(d) : d \in DevicePaths} \cup {DisabledItem(d) : d \in DevicePaths}

RestoreArgs ==
    { [op |-> "restore", config |-> c, persistent |-> p] :
        c \in SeqsUpTo(RequestItems, MaxReq), p \in BOOLEAN }

\* the enable / disable argument of toggleEnabledDisplays: not given
\* (not an array), or a list of distinct device paths
TogglePathLists ==
    {UndefinedList} \cup {<<>>}
    \cup { <<d>> : d \in DevicePaths }
    \cup { p \in DevicePaths \X DevicePaths : p[1] # p[2] }

ToggleArgs ==
    { [enable |-> en, disable |-> dis, persistent |-> p] :
        en \in TogglePathLists, dis \in TogglePathLists, p \in BOOLEAN }

\* the live raw configurations: targets 1 and 2, each one on (active, with
\* its target mode) or off (inactive, no target mode), and target 1 active
\* with a target index that points at a source mode; the two names are two
\* monitors, or one device path reported for both targets
LivePathValues ==
    { PathValue(ft[1], 0, ft[2], id, 5) : ft \in {<<1, 1>>, <<0, 2>>}, id \in {1, 2} }
    \cup { PathValue(1, 0, 0, 1, 5) }

LiveRaws ==
    { RawConfig(values, << ModeRecord("source", 1), ModeRecord("target", 2) >>, n) :
        values \in SeqsUpTo(LivePathValues, MaxPaths),
        n \in { << NameRecord(0, 1, 5, "A"), NameRecord(0, 2, 5, "B") >>,
                << NameRecord(0, 1, 5, "A"), NameRecord(0, 2, 5, "A") >> } }

\* what extractDisplayConfig returns for them
LiveConfigs == { extractDisplayConfig(r) : r \in LiveRaws }

\* nonzero statuses a raw primitive reports
Win32Codes == {5, 87}

-----------------------------------------------------------------------------
(* restoreDisplayConfig and toggleEnabledDisplays: the code *)

RECURSIVE NewSet(_)
\* new Set(array): the distinct elements in insertion order
NewSet(array) ==
    IF array = <<>> THEN <<>>
    ELSE LET init == NewSet(SubSeq(array, 1, Len(array) - 1))
             last == array[Len(array)]
         IN  IF Includes(init, last) THEN init ELSE Append(init, last)

RECURSIVE setSubtract(_, _)
setSubtract(left, right) ==
    IF left = <<>> THEN <<>>
    ELSE (IF Includes(right, Head(left)) THEN <<>> ELSE <<Head(left)>>)
         \o setSubtract(Tail(left), right)

RECURSIVE DevicePathsOf(_)
\* array.map(({ devicePath }) => devicePath)
DevicePathsOf(array) ==
    IF array = <<>> THEN <<>>
    ELSE <<Head(array).devicePath>> \o DevicePathsOf(Tail(array))

RECURSIVE FilterTargetMode(_, _)
\* array.filter on targetModeBuffer !== undefined (present) or === undefined
FilterTargetMode(array, present) ==
    IF array = <<>> THEN <<>>
    ELSE (IF (Head(array).targetModeBuffer # Undefined) = present
          THEN <<Head(array)>> ELSE <<>>)
         \o FilterTargetMode(Tail(array), present)

devicePathNames(a) == DevicePathsOf(FilterTargetMode(a.config, TRUE))

notInUse(a) == DevicePathsOf(FilterTargetMode(a.config, FALSE))

givenAsSet(conf) == NewSet(DevicePathsOf(conf))

\* the expected set taken from every item of the request, desired-disabled
\* ones included
expectedAllAsSet(a) == NewSet(DevicePathsOf(a.config))

expectedEnabledAsSet(a) == NewSet(devicePathNames(a))

missingEnabled(a, conf) == setSubtract(expectedEnabledAsSet(a), givenAsSet(conf))

\* the test that leaves an entry out of the lookup
LookupSkips(entry) == entry.inUse /\ entry.targetModeBuffer = Undefined

RECURSIVE LookupLoop(_, _)
LookupLoop(conf, ret) ==
    IF conf = <<>> THEN ret
    ELSE LET entry == Head(conf)
         IN  IF LookupSkips(entry) THEN LookupLoop(Tail(conf), ret)
             ELSE IF entry.devicePath \in DOMAIN ret THEN LookupLoop(Tail(conf), ret)
             ELSE LookupLoop(Tail(conf), (entry.devicePath :> entry) @@ ret)

\* the object keyed by device path; a key not in its domain reads undefined
devicePathLookupForEnabledDisplayConfig(conf) == LookupLoop(conf, <<>>)

\* CoercedRecord passing the stored base64 strings on undecoded
CoercedRecordUndecoded(entry, currentConfigEntry) ==
    [sourceConfigId   |-> currentConfigEntry.sourceConfigId,
     targetConfigId   |-> currentConfigEntry.targetConfigId,
     pathBuffer       |-> entry.pathBuffer,
     sourceModeBuffer |-> entry.sourceModeBuffer,
     targetModeBuffer |-> entry.targetModeBuffer]

\* the record pushed for a request item and the live entry found for it
CoercedRecord(entry, currentConfigEntry) ==
    [sourceConfigId   |-> currentConfigEntry.sourceConfigId,
     targetConfigId   |-> currentConfigEntry.targetConfigId,
     pathBuffer       |-> Base64Decode(entry.pathBuffer),
     sourceModeBuffer |-> Base64Decode(entry.sourceModeBuffer),
     targetModeBuffer |-> Base64Decode(entry.targetModeBuffer)]

RECURSIVE CoerceLoop(_, _)
CoerceLoop(config, pathLookup) ==
    IF config = <<>> THEN <<>>
    ELSE LET entry == Head(config)
         IN  (IF entry.targetModeBuffer = Undefined THEN <<>>
              ELSE IF entry.devicePath \notin DOMAIN pathLookup THEN <<>>
              ELSE << CoercedRecord(entry, pathLookup[entry.devicePath]) >>)
             \o CoerceLoop(Tail(config), pathLookup)

coercedState(a, conf) ==
    CoerceLoop(a.config, devicePathLookupForEnabledDisplayConfig(conf))

RECURSIVE SeenLoopAnyPath(_, _, _, _)
\* SeenLoop without the test that the name is a live device path
SeenLoopAnyPath(names, given, list, seen) ==
    IF names = <<>> THEN <<list, seen>>
    ELSE IF ~Includes(seen, Head(names))
         THEN SeenLoopAnyPath(Tail(names), given,
                              Append(list, Head(names)), Append(seen, Head(names)))
         ELSE SeenLoopAnyPath(Tail(names), given, list, seen)

RECURSIVE SeenLoop(_, _, _, _)
\* one pass of the fallback over a list of names: <<list pushed, seen>>
SeenLoop(names, given, list, seen) ==
    IF names = <<>> THEN <<list, seen>>
    ELSE IF ~Includes(seen, Head(names)) /\ Includes(given, Head(names))
         THEN SeenLoop(Tail(names), given,
                       Append(list, Head(names)), Append(seen, Head(names)))
         ELSE SeenLoop(Tail(names), given, list, seen)

\* FallbackToggleArgs with a disable pass that starts from an empty seen set
FallbackToggleArgsFreshSeen(a, conf) ==
    LET given       == givenAsSet(conf)
        enablePass  == SeenLoop(devicePathNames(a), given, <<>>, <<>>)
        disablePass == SeenLoop(notInUse(a), given, <<>>, <<>>)
    IN  [enable |-> enablePass[1], disable |-> disablePass[1],
         persistent |-> a.persistent]

\* the argument restoreDisplayConfig passes to toggleEnabledDisplays
FallbackToggleArgs(a, conf) ==
    LET given       == givenAsSet(conf)
        enablePass  == SeenLoop(devicePathNames(a), given, <<>>, <<>>)
        disablePass == SeenLoop(notInUse(a), given, <<>>, enablePass[2])
    IN  [enable |-> enablePass[1], disable |-> disablePass[1],
         persistent |-> a.persistent]

RECURSIVE ToggleIds(_, _)
\* the ids toggleEnabledDisplays pushes for one of its two path lists
ToggleIds(dconf, paths) ==
    IF dconf = <<>> THEN <<>>
    ELSE (IF paths # UndefinedList /\ Includes(paths, Head(dconf).devicePath)
          THEN <<Head(dconf).targetConfigId>> ELSE <<>>)
         \o ToggleIds(Tail(dconf), paths)

\* the argument toggleEnabledDisplays passes to the raw toggle primitive
RawToggleArgs(targs, dconf) ==
    [enable     |-> ToggleIds(dconf, targs.enable),
     disable    |-> ToggleIds(dconf, targs.disable),
     persistent |-> targs.persistent]

\* a toggle that makes no call of the primitive when both id lists are empty
RawToggleCallsSkippingEmpty(targs, dconf) ==
    IF RawToggleArgs(targs, dconf).enable = <<>>
       /\ RawToggleArgs(targs, dconf).disable = <<>>
    THEN <<>>
    ELSE << RawToggleArgs(targs, dconf) >>

\* the calls of the raw toggle primitive toggleEnabledDisplays makes after
\* its loop: one, whatever the lists hold
RawToggleCallsMade(targs, dconf) == << RawToggleArgs(targs, dconf) >>

\* new Win32Error(code)
Win32Error(code) == [type |-> "Win32Error", code |-> code]

Pending == [status |-> "pending"]
Resolved == [status |-> "resolved"]
Rejected(error) == [status |-> "rejected", error |-> error]

\* SettleOnStatus building the error from the callback's first argument
SettleOnFirstArgument(errorCode) ==
    IF errorCode = 0 THEN Resolved ELSE Rejected(Win32Error(0))

\* the callback of win32_restoreDisplayConfig / win32_toggleEnabledDisplays
SettleOnStatus(errorCode) ==
    IF errorCode = 0 THEN Resolved ELSE Rejected(Win32Error(errorCode))

-----------------------------------------------------------------------------
(* One call of restoreDisplayConfig or of toggleEnabledDisplays.  The call *)
(* suspends at each raw primitive; the completion of the primitive runs    *)
(* the code up to the next suspension.                                     *)

NoArgs == [op |-> "none"]

Last(s) == s[Len(s)]

\* restoreDisplayConfig(a) up to the await of extractDisplayConfig
CallRestore ==
    /\ UNCHANGED <<extractVars, notifyVars>>
    /\ pc = "idle"
    /\ \E a \in RestoreArgs : args' = a
    /\ queryCalls' = queryCalls + 1
    /\ outcome' = Pending
    /\ pc' = "restore_query"
    /\ UNCHANGED <<currentConfig, displayConfig, applyCalls, toggleCalls,
                   rawToggleCalls, reported>>

\* toggleEnabledDisplays(t), called by the user, up to the same await
CallToggle ==
    /\ UNCHANGED <<extractVars, notifyVars>>
    /\ pc = "idle"
    /\ \E t \in ToggleArgs : toggleCalls' = Append(toggleCalls, t)
    /\ args' = [op |-> "toggle"]
    /\ queryCalls' = queryCalls + 1
    /\ outcome' = Pending
    /\ pc' = "toggle_query"
    /\ UNCHANGED <<currentConfig, displayConfig, applyCalls, rawToggleCalls, reported>>

\* the query answers restoreDisplayConfig with an error: queryDisplayConfig
\* rejects, and so do extractDisplayConfig and restoreDisplayConfig
RestoreQueryFails ==
    /\ pc = "restore_query"
    /\ \E err \in Win32Codes :
         /\ reported' = Append(reported, <<"query", err>>)
         /\ outcome' = Rejected(Win32Error(err))
    /\ pc' = "done"
    /\ UNCHANGED <<args, currentConfig, displayConfig, applyCalls, toggleCalls,
                   rawToggleCalls, queryCalls>>
    /\ UNCHANGED <<extractVars, notifyVars>>

\* the query answers toggleEnabledDisplays with an error: it rejects, and so
\* does a restoreDisplayConfig that awaits it
ToggleQueryFails ==
    /\ pc = "toggle_query"
    /\ \E err \in Win32Codes :
         /\ reported' = Append(reported, <<"query", err>>)
         /\ outcome' = Rejected(Win32Error(err))
    /\ pc' = "done"
    /\ UNCHANGED <<args, currentConfig, displayConfig, applyCalls, toggleCalls,
                   rawToggleCalls, queryCalls>>
    /\ UNCHANGED <<extractVars, notifyVars>>

\* the query answers restoreDisplayConfig: the code from the extraction to
\* the call of the raw apply primitive, or into toggleEnabledDisplays up to
\* its own await of extractDisplayConfig
RestoreQueryDone ==
    /\ pc = "restore_query"
    /\ \E conf \in LiveConfigs :
         /\ currentConfig' = conf
         /\ IF Len(missingEnabled(args, conf)) = 0
            THEN /\ applyCalls' = Append(applyCalls,
                        [configs    |-> coercedState(args, conf),
                         persistent |-> args.persistent])
                 /\ pc' = "apply_wait"
                 /\ UNCHANGED <<toggleCalls, queryCalls>>
            ELSE /\ toggleCalls' = Append(toggleCalls, FallbackToggleArgs(args, conf))
                 /\ queryCalls' = queryCalls + 1
                 /\ pc' = "toggle_called"
                 /\ UNCHANGED applyCalls
    /\ reported' = Append(reported, <<"query", 0>>)
    /\ UNCHANGED <<args, displayConfig, rawToggleCalls, outcome>>
    /\ UNCHANGED <<extractVars, notifyVars>>

\* restoreDisplayConfig suspends in its await of toggleEnabledDisplays; no
\* statement after the await reads args or currentConfig, and they are
\* forgotten here
RestoreAwaitsToggle ==
    /\ pc = "toggle_called"
    /\ pc' = "toggle_query"
    /\ args' = [op |-> args.op]
    /\ currentConfig' = NotRun
    /\ UNCHANGED <<displayConfig, applyCalls, toggleCalls, rawToggleCalls,
                   queryCalls, reported, outcome>>
    /\ UNCHANGED <<extractVars, notifyVars>>

\* the query answers toggleEnabledDisplays: the code up to the call of the
\* raw toggle primitive
ToggleQueryDone ==
    /\ pc = "toggle_query"
    /\ \E conf \in LiveConfigs :
         /\ displayConfig' = conf
         /\ rawToggleCalls' = rawToggleCalls
                                \o RawToggleCallsMade(toggleCalls[Len(toggleCalls)], conf)
    /\ reported' = Append(reported, <<"query", 0>>)
    /\ pc' = "toggle_wait"
    /\ UNCHANGED <<args, currentConfig, applyCalls, toggleCalls, queryCalls, outcome>>
    /\ UNCHANGED <<extractVars, notifyVars>>

\* the raw apply primitive reports its status
ApplyDone ==
    /\ UNCHANGED <<extractVars, notifyVars>>
    /\ pc = "apply_wait"
    /\ \E errorCode \in {0} \cup Win32Codes :
         /\ reported' = Append(reported, <<"apply", errorCode>>)
         /\ outcome' = SettleOnStatus(errorCode)
    /\ pc' = "done"
    /\ currentConfig' = NotRun
    /\ UNCHANGED <<args, displayConfig, applyCalls, toggleCalls, rawToggleCalls,
                   queryCalls>>

\* the raw toggle primitive reports its status
ToggleDone ==
    /\ UNCHANGED <<extractVars, notifyVars>>
    /\ pc = "toggle_wait"
    /\ \E errorCode \in {0} \cup Win32Codes :
         /\ reported' = Append(reported, <<"toggle", errorCode>>)
         /\ outcome' = SettleOnStatus(errorCode)
    /\ pc' = "done"
    /\ displayConfig' = NotRun
    /\ UNCHANGED <<args, currentConfig, applyCalls, toggleCalls, rawToggleCalls,
                   queryCalls>>

RestoreInit ==
    /\ pc = "idle"
    /\ args = NoArgs
    /\ currentConfig = NotRun
    /\ displayConfig = NotRun
    /\ applyCalls = <<>>
    /\ toggleCalls = <<>>
    /\ rawToggleCalls = <<>>
    /\ queryCalls = 0
    /\ reported = <<>>
    /\ outcome = [status |-> "none"]
    /\ raw = NotRun
    /\ extracted = NotRun
    /\ xpc = "off"
    /\ forRestoration = NotRun
    /\ currentDisplayConfig = UndefinedConfig
    /\ displayChangeCallbacks = <<>>
    /\ pulses = 0
    /\ chained = 0
    /\ settled = 0
    /\ running = {}
    /\ updateLog = <<>>
    /\ listening = FALSE
    /\ nativeCalls = <<>>
    /\ delivered = <<>>
    /\ lastGood = UndefinedConfig
    /\ lastFailed = FALSE

RestoreNext ==
    \/ CallRestore
    \/ CallToggle
    \/ RestoreQueryFails
    \/ RestoreQueryDone
    \/ RestoreAwaitsToggle
    \/ ToggleQueryFails
    \/ ToggleQueryDone
    \/ ApplyDone
    \/ ToggleDone

SpecRestore == RestoreInit /\ [][RestoreNext]_vars

-----------------------------------------------------------------------------
(* The display-change cache: currentDisplayConfig, the listener set, and   *)
(* the promise chain of updates.  A step is one turn of the event loop: a  *)
(* call by the user, or a callback of the addon together with the promise  *)
(* continuations it makes runnable.                                        *)

\* the listeners the user registers: L1 and L2 only receive; R calls
\* removeDisplayChangeListener(L1) whenever it is invoked
Listeners == {"L1", "L2", "R"}

\* a listener whose code throws when it is handed a configuration
ThrowingListeners == {"T"}

AllListeners == Listeners \cup ThrowingListeners

\* the exception a throwing listener throws
ThrownError == [type |-> "Error", code |-> 0]

\* the `null` passed as the error of a successful delivery
NoError == [type |-> "null", code |-> 0]

\* what the extraction of an update returns when it succeeds: no display,
\* one display, two displays
NotifyConfigs ==
    { extractDisplayConfig(
          RawConfig(values,
                    << ModeRecord("source", 1), ModeRecord("target", 2) >>,
                    << NameRecord(0, 1, 5, "A"), NameRecord(0, 2, 5, "B") >>)) :
        values \in { <<>>,
                     << PathValue(1, 0, 1, 1, 5) >>,
                     << PathValue(1, 0, 1, 1, 5), PathValue(0, 0, 2, 2, 5) >> } }

\* Set.prototype.add and Set.prototype.delete on a Set kept in insertion order
SetAdd(set, x) == IF Includes(set, x) THEN set ELSE Append(set, x)

SetDelete(set, x) == SelectSeqBy(set, SeqToSet(set) \ {x})

\* The part of the state that the subscribe and unsubscribe functions and
\* the listeners change during a step:
\*   [callbacks, listening, nativeCalls, delivered],
\* and thrown: has a listener thrown out of the loop that invoked it
StepStart ==
    [callbacks   |-> displayChangeCallbacks,
     listening   |-> listening,
     nativeCalls |-> <<>>,
     delivered   |-> <<>>,
     thrown      |-> FALSE]

removeDisplayChangeListener(st, listener) ==
    LET cbs == SetDelete(st.callbacks, listener)
    IN  IF Len(cbs) = 0
        THEN [st EXCEPT !.callbacks = cbs, !.listening = FALSE,
                        !.nativeCalls = Append(@, "stop")]
        ELSE [st EXCEPT !.callbacks = cbs]

\* what the code of a listener does when it is invoked
ListenerBody(st, listener, error) ==
    IF listener = "R" THEN removeDisplayChangeListener(st, "L1")
    ELSE IF listener \in ThrowingListeners /\ error = NoError
         THEN [st EXCEPT !.thrown = TRUE]
         ELSE st

\* callback(error, config)
Invoke(st, listener, error, config) ==
    ListenerBody(
        [st EXCEPT !.delivered =
            Append(@, [listener |-> listener, error |-> error, config |-> config])],
        listener, error)

\* the test `currentDisplayConfig !== undefined` failing for an empty array
CachedConfigNotEmpty(config) == config # UndefinedConfig /\ config # <<>>

\* currentDisplayConfig !== undefined
CachedConfigExists(config) == config # UndefinedConfig

addDisplayChangeListener(st, listener, cached) ==
    LET registered == IF Len(st.callbacks) = 0
                      THEN [st EXCEPT !.listening = TRUE,
                                      !.nativeCalls = Append(@, "listen")]
                      ELSE st
        added      == [registered EXCEPT !.callbacks = SetAdd(@, listener)]
    IN  IF CachedConfigExists(cached)
        THEN Invoke(added, listener, NoError, cached)
        ELSE added

RECURSIVE FanOut(_, _, _, _)
\* for (const callback of Array.from(displayChangeCallbacks)) callback(...):
\* a callback that throws ends the loop
FanOut(snapshot, st, error, config) ==
    IF snapshot = <<>> \/ st.thrown THEN st
    ELSE FanOut(Tail(snapshot), Invoke(st, Head(snapshot), error, config),
                error, config)

Commit(st) ==
    /\ displayChangeCallbacks' = st.callbacks
    /\ listening' = st.listening
    /\ nativeCalls' = st.nativeCalls
    /\ delivered' = st.delivered

\* a then-callback that does not wait for the promise it is chained on
ThenReadyAtOnce(k, settledCount) == TRUE

\* does the callback of currentDisplayConfigPromise.then for update k run:
\* the promise of update k - 1 has fulfilled
ThenReady(k, settledCount) == settledCount >= k

\* a pulse handler that chains nothing while an update is outstanding
ChainedAfterPulseCoalesced(chainedCount, settledCount) ==
    IF settledCount <= chainedCount THEN chainedCount ELSE chainedCount + 1

\* the pulse handler chains one more update
ChainedAfterPulse(chainedCount, settledCount) == chainedCount + 1

\* the promise of an update fulfils when the function returns, from the try
\* block or from the catch block
SettledAfterUpdate(settledCount, failed) == settledCount + 1

\* an update that clears the cache when the extraction fails
ConfigAfterUpdateCleared(current, failed, conf) ==
    IF failed THEN UndefinedConfig ELSE conf

\* currentDisplayConfig after an update: assigned only when the awaited
\* extraction did not throw
ConfigAfterUpdate(current, failed, conf) ==
    IF failed THEN current ELSE conf

NotifyInit ==
    /\ currentDisplayConfig = UndefinedConfig
    /\ displayChangeCallbacks = <<>>
    /\ pulses = 0
    /\ chained = 0
    /\ settled = 0
    /\ running = {0}
    /\ updateLog = <<0>>
    /\ listening = FALSE
    /\ nativeCalls = <<>>
    /\ delivered = <<>>
    /\ lastGood = UndefinedConfig
    /\ lastFailed = FALSE
    /\ raw = NotRun
    /\ extracted = NotRun
    /\ xpc = "off"
    /\ forRestoration = NotRun
    /\ pc = "off"
    /\ args = NoArgs
    /\ currentConfig = NotRun
    /\ displayConfig = NotRun
    /\ applyCalls = <<>>
    /\ toggleCalls = <<>>
    /\ rawToggleCalls = <<>>
    /\ queryCalls = 0
    /\ reported = <<>>
    /\ outcome = [status |-> "none"]

\* the user calls addDisplayChangeListener(listener)
AddListener(listener) ==
    /\ Commit(addDisplayChangeListener(StepStart, listener, currentDisplayConfig))
    /\ UNCHANGED <<currentDisplayConfig, pulses, chained, settled, running,
                   updateLog, lastGood, lastFailed>>
    /\ UNCHANGED <<extractVars, restoreVars>>

\* the user calls removeDisplayChangeListener(listener)
RemoveListener(listener) ==
    /\ Commit(removeDisplayChangeListener(StepStart, listener))
    /\ UNCHANGED <<currentDisplayConfig, pulses, chained, settled, running,
                   updateLog, lastGood, lastFailed>>
    /\ UNCHANGED <<extractVars, restoreVars>>

\* the addon delivers a change pulse: the callback given to
\* win32_listenForDisplayChanges runs with err === null
Pulse ==
    /\ listening
    /\ pulses < MaxPulses
    /\ pulses' = pulses + 1
    /\ chained' = ChainedAfterPulse(chained, settled)
    /\ IF chained' > chained /\ ThenReady(chained', settled)
       THEN /\ running' = running \cup {chained'}
            /\ updateLog' = Append(updateLog, chained')
       ELSE UNCHANGED <<running, updateLog>>
    /\ nativeCalls' = <<>>
    /\ delivered' = <<>>
    /\ UNCHANGED <<currentDisplayConfig, displayChangeCallbacks, settled, listening,
                   lastGood, lastFailed>>
    /\ UNCHANGED <<extractVars, restoreVars>>

\* the addon runs the callback with an error: the callback does nothing
PulseError ==
    /\ listening
    /\ \E err \in Win32Codes : err # 0
    /\ nativeCalls' = <<>>
    /\ delivered' = <<>>
    /\ UNCHANGED <<currentDisplayConfig, displayChangeCallbacks, pulses, chained,
                   settled, running, updateLog, listening, lastGood, lastFailed>>
    /\ UNCHANGED <<extractVars, restoreVars>>

\* the query of update j is answered: the rest of
\* updateDisplayStateAndNotifyCallbacks, and the update chained next if
\* there is one
UpdateFinishes(j, failed, conf, error) ==
    /\ j \in running
    /\ currentDisplayConfig' = ConfigAfterUpdate(currentDisplayConfig, failed, conf)
    /\ LET tried  == IF failed THEN StepStart
                     ELSE FanOut(displayChangeCallbacks, StepStart, NoError,
                                 currentDisplayConfig')
           caught == failed \/ tried.thrown
           final  == IF caught
                     THEN FanOut(tried.callbacks, [tried EXCEPT !.thrown = FALSE],
                                 IF failed THEN error ELSE ThrownError,
                                 UndefinedConfig)
                     ELSE tried
       IN  /\ Commit(final)
           /\ settled' = IF final.thrown THEN settled
                         ELSE SettledAfterUpdate(settled, failed)
    /\ IF j + 1 <= chained /\ ThenReady(j + 1, settled')
          /\ ~Includes(updateLog, j + 1)
       THEN /\ running' = (running \ {j}) \cup {j + 1}
            /\ updateLog' = Append(updateLog, j + 1)
       ELSE /\ running' = running \ {j}
            /\ UNCHANGED updateLog
    /\ lastGood' = IF failed THEN lastGood ELSE conf
    /\ lastFailed' = failed
    /\ UNCHANGED <<pulses, chained>>
    /\ UNCHANGED <<extractVars, restoreVars>>

UpdateSucceeds ==
    \E j \in running : \E conf \in NotifyConfigs :
        UpdateFinishes(j, FALSE, conf, NoError)

UpdateFails ==
    \E j \in running : \E err \in Win32Codes :
        UpdateFinishes(j, TRUE, UndefinedConfig, Win32Error(err))

QueryAnswered == UpdateSucceeds \/ UpdateFails

NotifyNext ==
    \/ \E listener \in Listeners : AddListener(listener)
    \/ \E listener \in Listeners : RemoveListener(listener)
    \/ Pulse
    \/ PulseError
    \/ UpdateSucceeds
    \/ UpdateFails

SpecNotify == NotifyInit /\ [][NotifyNext]_vars

\* the same with a listener that throws among the subscribers
NotifyThrowNext ==
    \/ \E listener \in AllListeners : AddListener(listener)
    \/ \E listener \in AllListeners : RemoveListener(listener)
    \/ Pulse
    \/ PulseError
    \/ UpdateSucceeds
    \/ UpdateFails

SpecNotifyThrow == NotifyInit /\ [][NotifyThrowNext]_vars

\* every query the addon accepts is answered
SpecNotifyFair == SpecNotify /\ WF_vars(QueryAnswered)

-----------------------------------------------------------------------------
(* Properties of extractDisplayConfig *)

\* some name record matches the target of path i, has a device path, and
\* both output technologies are truthy
HasName(config, i) ==
    LET target == config.pathArray[i].value.targetInfo
    IN  \E k \in DOMAIN config.nameArray :
            /\ config.nameArray[k].adapterId = target.adapterId
            /\ config.nameArray[k].id = target.id
            /\ config.nameArray[k].monitorDevicePath # ""
            /\ config.nameArray[k].outputTechnology # 0
            /\ target.outputTechnology # 0

\* the record at the mode index exists and carries the tag
HasMode(config, idx, tag) ==
    /\ idx < Len(config.modeArray)
    /\ config.modeArray[idx + 1].value.infoType = tag

HasSourceMode(config, i) ==
    HasMode(config, config.pathArray[i].value.sourceInfo.modeInfoIdx, "source")

HasTargetMode(config, i) ==
    HasMode(config, config.pathArray[i].value.targetInfo.modeInfoIdx, "target")

\* the positions of the paths the claims say an entry is emitted for
Emitting(config) ==
    {i \in DOMAIN config.pathArray : HasName(config, i) /\ HasSourceMode(config, i)}

\* C10: extractDisplayConfig emits an entry for a path exactly when a name
\* record matches its target (with a non-empty device path and truthy output
\* technologies) and the record at its source mode index exists and is
\* tagged source, whatever its target mode; the entries keep the order of
\* the path array.
C10_EmitsIffNameAndSourceMode ==
    xpc = "extracted" =>
        /\ Len(extracted) = Cardinality(Emitting(raw))
        /\ \A k \in DOMAIN extracted :
             \E i \in Emitting(raw) :
                /\ Cardinality({j \in Emitting(raw) : j <= i}) = k
                /\ extracted[k].pathBuffer = raw.pathArray[i].buffer

\* two paths: the first has a name and a resolved target mode but its source
\* index points at a target mode, and only the second is emitted
C10_Witness ==
    /\ xpc = "extracted"
    /\ Len(raw.pathArray) = 2
    /\ HasName(raw, 1) /\ HasTargetMode(raw, 1) /\ ~HasSourceMode(raw, 1)
    /\ Len(extracted) = 1
    /\ extracted[1].pathBuffer = raw.pathArray[2].buffer

\* the position in the path array of the path an entry was extracted from
PathOf(entry) == entry.pathBuffer[1] - 16

\* the record at the target mode index of path i exists
TargetRecordExists(config, i) ==
    config.pathArray[i].value.targetInfo.modeInfoIdx < Len(config.modeArray)

\* C11: for every entry extractDisplayConfig emits, inUse is true exactly
\* when bit 0 of the path's flags is set and the record at the target mode
\* index exists; with no record at the target mode index the entry has
\* inUse = false and no targetModeBuffer; with a record there that is not
\* tagged target the entry has no target-derived field; with a record tagged
\* target it carries that record's signal info and buffer.
C11_InUseIsActiveBitAndTargetRecord ==
    xpc = "extracted" =>
        \A k \in DOMAIN extracted :
            LET i      == PathOf(extracted[k])
                flags  == raw.pathArray[i].value.flags
                tIdx   == raw.pathArray[i].value.targetInfo.modeInfoIdx
                exists == TargetRecordExists(raw, i)
            IN  /\ extracted[k].inUse = (flags % 2 = 1 /\ exists)
                /\ ~exists =>
                      /\ extracted[k].inUse = FALSE
                      /\ extracted[k].targetModeBuffer = Undefined
                /\ (exists /\ ~HasTargetMode(raw, i)) =>
                      /\ extracted[k].targetModeBuffer = Undefined
                      /\ extracted[k].targetVideoSignalInfo = UndefinedPayload
                /\ HasTargetMode(raw, i) =>
                      /\ extracted[k].targetModeBuffer = raw.modeArray[tIdx + 1].buffer
                      /\ extracted[k].targetVideoSignalInfo =
                            raw.modeArray[tIdx + 1].value.payload

\* two entries: an active path whose target mode index is past the end of
\* the mode array (inUse false, no target buffer), and a path with flags 2
\* (bit 0 clear) and a resolved target mode (inUse false, target buffer set)
C11_Witness ==
    /\ xpc = "extracted"
    /\ Len(extracted) = 2
    /\ raw.pathArray[1].value.flags = 1
    /\ ~TargetRecordExists(raw, 1)
    /\ extracted[1].inUse = FALSE
    /\ extracted[1].targetModeBuffer = Undefined
    /\ raw.pathArray[2].value.flags = 2
    /\ HasTargetMode(raw, 2)
    /\ extracted[2].inUse = FALSE
    /\ extracted[2].targetModeBuffer # Undefined

\* the positions of the live entries that are in use with a target mode
Capturable(conf) ==
    {i \in DOMAIN conf : conf[i].inUse /\ conf[i].targetModeBuffer # Undefined}

\* C12: displayConfigForRestoration returns one record for each live entry
\* that is inUse and has a targetModeBuffer, in the order of the entries,
\* and none for any other entry; a record carries the entry's device path
\* and the base64 text of its three buffers.
C12_SnapshotOfEnabledWithMode ==
    xpc = "captured" =>
        /\ Len(forRestoration) = Cardinality(Capturable(extracted))
        /\ \A k \in DOMAIN forRestoration :
             \E i \in Capturable(extracted) :
                /\ Cardinality({j \in Capturable(extracted) : j <= i}) = k
                /\ forRestoration[k].devicePath = extracted[i].devicePath
                /\ Base64Decode(forRestoration[k].pathBuffer) = extracted[i].pathBuffer
                /\ Base64Decode(forRestoration[k].sourceModeBuffer) = extracted[i].sourceModeBuffer
                /\ Base64Decode(forRestoration[k].targetModeBuffer) = extracted[i].targetModeBuffer

\* two live entries: the first is inactive with a resolved target mode, the
\* second active with one; only the second is captured
C12_Witness ==
    /\ xpc = "captured"
    /\ Len(extracted) = 2
    /\ ~extracted[1].inUse
    /\ extracted[1].targetModeBuffer # Undefined
    /\ extracted[2].inUse
    /\ Len(forRestoration) = 1
    /\ forRestoration[1].devicePath = extracted[2].devicePath
    /\ Base64Decode(forRestoration[1].pathBuffer) = <<18>>

-----------------------------------------------------------------------------
(* Properties of restoreDisplayConfig and toggleEnabledDisplays *)

\* restoreDisplayConfig has extracted the live configuration and has run up
\* to its await of the raw apply primitive or of toggleEnabledDisplays
RestoreExtracted ==
    /\ pc \in {"apply_wait", "toggle_called"}
    /\ args.op = "restore"

LivePaths == {currentConfig[i].devicePath : i \in DOMAIN currentConfig}

\* positions of the desired-enabled items of the request
EnabledItems == {i \in DOMAIN args.config : args.config[i].targetModeBuffer # Undefined}

DesiredEnabledPaths == {args.config[i].devicePath : i \in EnabledItems}

\* the live entries the lookup can hold for a device path
Admitted(devicePath) ==
    {i \in DOMAIN currentConfig :
        /\ currentConfig[i].devicePath = devicePath
        /\ ~(currentConfig[i].inUse /\ currentConfig[i].targetModeBuffer = Undefined)}

\* the desired-enabled items for which the lookup holds an entry
ResolvableItems == {i \in EnabledItems : Admitted(args.config[i].devicePath) # {}}

\* C1: when every desired-enabled device path is in the live configuration,
\* restore never calls toggle and calls the raw apply primitive exactly once,
\* with exactly one record per resolvable device: no device path contributes
\* more than one record, also when the request lists it more than once.
C1_ExactRestoreOneRecordPerDevice ==
    /\ (args.op = "restore" /\ applyCalls # <<>>) =>
          (toggleCalls = <<>> /\ Len(applyCalls) = 1)
    /\ (RestoreExtracted /\ DesiredEnabledPaths \subseteq LivePaths) =>
        /\ toggleCalls = <<>>
        /\ Len(applyCalls) = 1
        /\ Len(applyCalls[1].configs) =
             Cardinality({args.config[i].devicePath : i \in ResolvableItems})

\* what holds of the code instead: one record per resolvable item
C1_OneRecordPerItem ==
    /\ (args.op = "restore" /\ applyCalls # <<>>) =>
          (toggleCalls = <<>> /\ Len(applyCalls) = 1)
    /\ (RestoreExtracted /\ DesiredEnabledPaths \subseteq LivePaths) =>
        /\ toggleCalls = <<>>
        /\ Len(applyCalls) = 1
        /\ Len(applyCalls[1].configs) = Cardinality(ResolvableItems)

\* C2: when a desired-enabled device path is absent from the live
\* configuration, restore never calls the raw apply primitive and calls
\* toggle exactly once; the enable and disable lists hold only live device
\* paths and share no path.
C2_FallbackTogglesLivePathsOnce ==
    /\ (args.op = "restore" /\ toggleCalls # <<>>) =>
          (applyCalls = <<>> /\ Len(toggleCalls) = 1)
    /\ (RestoreExtracted /\ ~(DesiredEnabledPaths \subseteq LivePaths)) =>
          /\ applyCalls = <<>>
          /\ Len(toggleCalls) = 1
          /\ SeqToSet(toggleCalls[1].enable) \subseteq LivePaths
          /\ SeqToSet(toggleCalls[1].disable) \subseteq LivePaths
          /\ SeqToSet(toggleCalls[1].enable) \cap SeqToSet(toggleCalls[1].disable) = {}

\* the request enables A and C, C is not live: toggle is called with A alone
C2_Witness ==
    /\ RestoreExtracted
    /\ DevicePathsOf(args.config) = <<"A", "C">>
    /\ EnabledItems = {1, 2}
    /\ LivePaths = {"A", "B"}
    /\ applyCalls = <<>>
    /\ Len(toggleCalls) = 1
    /\ toggleCalls[1].enable = <<"A">>
    /\ toggleCalls[1].disable = <<>>

\* position in args.config of the k-th resolvable item
ResolvableAt(k) ==
    CHOOSE i \in ResolvableItems : Cardinality({j \in ResolvableItems : j <= i}) = k

\* the first live entry the lookup can hold for a device path
FirstAdmitted(devicePath) ==
    currentConfig[CHOOSE i \in Admitted(devicePath) :
                     \A j \in Admitted(devicePath) : i <= j]

\* C3: in the exact-restore case the records passed to the raw apply
\* primitive follow the order of the desired-enabled items of the request;
\* each carries the sourceConfigId and targetConfigId of the first live entry
\* matching its device path, and the bytes the request item stored for the
\* path, the source mode and the target mode.
C3_RecordsLiveIdsStoredBuffers ==
    (RestoreExtracted /\ DesiredEnabledPaths \subseteq LivePaths) =>
        /\ Len(applyCalls) = 1
        /\ Len(applyCalls[1].configs) = Cardinality(ResolvableItems)
        /\ \A k \in DOMAIN applyCalls[1].configs :
             LET item   == args.config[ResolvableAt(k)]
                 live   == FirstAdmitted(item.devicePath)
                 record == applyCalls[1].configs[k]
             IN  /\ record.sourceConfigId = live.sourceConfigId
                 /\ record.targetConfigId = live.targetConfigId
                 /\ record.pathBuffer = <<StoredByte(item.devicePath)>>
                 /\ record.sourceModeBuffer = <<StoredByte(item.devicePath), 7>>
                 /\ record.targetModeBuffer = <<StoredByte(item.devicePath), 7, 255>>

\* the request enables B then A; the live configuration lists A (target 1)
\* then B (target 2): two records, B's first
C3_Witness ==
    /\ RestoreExtracted
    /\ pc = "apply_wait"
    /\ DevicePathsOf(args.config) = <<"B", "A">>
    /\ EnabledItems = {1, 2}
    /\ DevicePathsOf(currentConfig) = <<"A", "B">>
    /\ Len(applyCalls[1].configs) = 2
    /\ applyCalls[1].configs[1].targetConfigId.id = 2
    /\ applyCalls[1].configs[1].pathBuffer = <<202>>
    /\ applyCalls[1].configs[2].targetConfigId.id = 1

\* the live entries of a device path that are in use with a target mode
EnabledWithMode(devicePath) ==
    {i \in DOMAIN currentConfig :
        /\ currentConfig[i].devicePath = devicePath
        /\ currentConfig[i].inUse
        /\ currentConfig[i].targetModeBuffer # Undefined}

\* the desired-enabled items whose device path has such a live entry
ItemsEnabledWithMode ==
    {i \in EnabledItems : EnabledWithMode(args.config[i].devicePath) # {}}

\* C13: in the exact-restore case the lookup holds only live entries that
\* are inUse with a resolved target mode: a desired-enabled item whose live
\* entries are all off or without targetModeBuffer adds no record to the
\* apply call, and the record of any other desired-enabled item carries the
\* ids of the first live entry of its device path that is inUse with a
\* target mode.
C13_LookupHoldsOnlyEnabledWithMode ==
    (RestoreExtracted /\ DesiredEnabledPaths \subseteq LivePaths) =>
        /\ Len(applyCalls) = 1
        /\ Len(applyCalls[1].configs) = Cardinality(ItemsEnabledWithMode)
        /\ \A k \in DOMAIN applyCalls[1].configs :
             LET i    == CHOOSE i \in ItemsEnabledWithMode :
                            Cardinality({j \in ItemsEnabledWithMode : j <= i}) = k
                 with == EnabledWithMode(args.config[i].devicePath)
                 live == currentConfig[CHOOSE m \in with : \A n \in with : m <= n]
             IN  /\ applyCalls[1].configs[k].sourceConfigId = live.sourceConfigId
                 /\ applyCalls[1].configs[k].targetConfigId = live.targetConfigId

\* what holds of the lookup instead: it leaves out only the live entries
\* that are inUse without a targetModeBuffer, and keeps the first of the
\* others for each device path
C13_LookupLeavesOutActiveWithoutTarget ==
    (RestoreExtracted /\ DesiredEnabledPaths \subseteq LivePaths) =>
        LET pathLookup == devicePathLookupForEnabledDisplayConfig(currentConfig)
        IN  /\ DOMAIN pathLookup = {d \in LivePaths : Admitted(d) # {}}
            /\ \A d \in DOMAIN pathLookup : pathLookup[d] = FirstAdmitted(d)
            /\ Len(applyCalls[1].configs) = Cardinality(ResolvableItems)

\* positions of the desired-disabled items of the request
DisabledItems == DOMAIN args.config \ EnabledItems

DesiredDisabledPaths == {args.config[i].devicePath : i \in DisabledItems}

\* the first position among items at which the request names a device path
FirstAt(devicePath, items) ==
    CHOOSE i \in items :
        /\ args.config[i].devicePath = devicePath
        /\ \A j \in items : args.config[j].devicePath = devicePath => i <= j

\* list names each of its device paths once, in the order in which the
\* items of the request first name them
InOrderOfFirstOccurrence(list, items) ==
    /\ Len(list) = Cardinality(SeqToSet(list))
    /\ \A a, b \in DOMAIN list :
          a < b => FirstAt(list[a], items) < FirstAt(list[b], items)

\* C14: in the fallback case a device path the request lists both as
\* desired-enabled and as desired-disabled is never on the disable list, and
\* is on the enable list when it is live; the enable list holds the live
\* desired-enabled paths and the disable list the other live
\* desired-disabled paths, each path once, in the order of first occurrence
\* in the request.
C14_EnableWinsFirstOccurrenceOrder ==
    (RestoreExtracted /\ ~(DesiredEnabledPaths \subseteq LivePaths)) =>
        /\ Len(toggleCalls) = 1
        /\ SeqToSet(toggleCalls[1].enable) = DesiredEnabledPaths \cap LivePaths
        /\ SeqToSet(toggleCalls[1].disable) =
              (DesiredDisabledPaths \ DesiredEnabledPaths) \cap LivePaths
        /\ InOrderOfFirstOccurrence(toggleCalls[1].enable, EnabledItems)
        /\ InOrderOfFirstOccurrence(toggleCalls[1].disable, DisabledItems)

\* the request disables A, enables C (not live) and enables A: A is on the
\* enable list alone, though the request names it as disabled first
C14_Witness ==
    /\ RestoreExtracted
    /\ DevicePathsOf(args.config) = <<"A", "C", "A">>
    /\ EnabledItems = {2, 3}
    /\ LivePaths = {"A", "B"}
    /\ Len(toggleCalls) = 1
    /\ toggleCalls[1].enable = <<"A">>
    /\ toggleCalls[1].disable = <<>>

\* toggleEnabledDisplays has extracted the live configuration and awaits the
\* raw toggle primitive
ToggleExtracted == pc = "toggle_wait"

\* the first live entry of toggle's extraction with the device path
FirstLive(devicePath) ==
    displayConfig[CHOOSE i \in DOMAIN displayConfig :
                     /\ displayConfig[i].devicePath = devicePath
                     /\ \A j \in DOMAIN displayConfig :
                           displayConfig[j].devicePath = devicePath => i <= j]

\* the ids of the requested paths that have a live match, in the order of
\* the requested list
IdsInRequestOrder(paths) ==
    LET matched == IF paths = UndefinedList THEN <<>>
                   ELSE SelectSeqBy(paths, SeqToSet(DevicePathsOf(displayConfig)))
    IN  [k \in DOMAIN matched |-> FirstLive(matched[k]).targetConfigId]

\* the ids of the live entries whose device path is requested, in the order
\* of the live configuration
IdsInLiveOrder(paths) ==
    LET hits == {i \in DOMAIN displayConfig :
                    /\ paths # UndefinedList
                    /\ Includes(paths, displayConfig[i].devicePath)}
        at(k) == CHOOSE i \in hits : Cardinality({j \in hits : j <= i}) = k
    IN  [k \in 1..Cardinality(hits) |-> displayConfig[at(k)].targetConfigId]

\* C15: toggleEnabledDisplays passes to the raw toggle primitive the
\* targetConfigId of each requested device path that has a live match in the
\* extraction made inside toggle, in the order of the requested list, and
\* nothing for a requested path without a live match.
C15_ToggleIdsInRequestOrder ==
    ToggleExtracted =>
        /\ Last(rawToggleCalls).enable = IdsInRequestOrder(Last(toggleCalls).enable)
        /\ Last(rawToggleCalls).disable = IdsInRequestOrder(Last(toggleCalls).disable)

\* what holds of the code instead: the ids of the live entries whose device
\* path is requested, in the order of the live configuration, with the
\* persistent flag of the request
C15_ToggleIdsInLiveOrder ==
    ToggleExtracted =>
        /\ Last(rawToggleCalls).enable = IdsInLiveOrder(Last(toggleCalls).enable)
        /\ Last(rawToggleCalls).disable = IdsInLiveOrder(Last(toggleCalls).disable)
        /\ Last(rawToggleCalls).persistent = Last(toggleCalls).persistent

\* the queries that were answered without error
QueriesAnswered == Cardinality({i \in DOMAIN reported : reported[i] = <<"query", 0>>})

\* toggleEnabledDisplays was called and its extraction has succeeded
ToggleExtractionSucceeded ==
    /\ toggleCalls # <<>>
    /\ pc \in {"toggle_wait", "done"}
    /\ QueriesAnswered = queryCalls

\* C16: once its extraction has succeeded, toggleEnabledDisplays has called
\* the raw toggle primitive exactly once, also with two empty id lists or
\* with enable / disable not given, and the call completes successfully
\* when the primitive reports status 0; without a successful extraction the
\* primitive is not called.
C16_ToggleCallsPrimitiveOnce ==
    /\ ToggleExtractionSucceeded =>
          /\ Len(rawToggleCalls) = 1
          /\ (pc = "done" /\ reported[Len(reported)] = <<"toggle", 0>>) =>
                outcome = Resolved
          /\ pc = "done" => reported[Len(reported)][1] = "toggle"
    /\ rawToggleCalls # <<>> => ToggleExtractionSucceeded

\* toggle was called without an enable list and with a disable list naming
\* a path that is not live: the primitive was called with two empty lists,
\* reported 0, and the call succeeded
C16_Witness ==
    /\ pc = "done"
    /\ args.op = "toggle"
    /\ toggleCalls = << [enable |-> UndefinedList, disable |-> <<"C">>,
                         persistent |-> TRUE] >>
    /\ rawToggleCalls = << [enable |-> <<>>, disable |-> <<>>, persistent |-> TRUE] >>
    /\ reported = << <<"query", 0>>, <<"toggle", 0>> >>
    /\ outcome = Resolved

\* C20: in the exact-restore case the desired-disabled items of the request
\* have no effect: no toggle is issued, and every record of the apply call
\* stems from a desired-enabled item; a request without a desired-enabled
\* item takes the exact-restore case whatever is live, and calls apply once
\* with an empty record list.
C20_DisabledItemsHaveNoEffect ==
    /\ (RestoreExtracted /\ DesiredEnabledPaths \subseteq LivePaths) =>
          /\ toggleCalls = <<>>
          /\ Len(applyCalls) = 1
          /\ Len(applyCalls[1].configs) <= Cardinality(EnabledItems)
          /\ \A k \in DOMAIN applyCalls[1].configs :
                \E i \in EnabledItems :
                   applyCalls[1].configs[k].pathBuffer =
                      Base64Decode(args.config[i].pathBuffer)
    /\ (RestoreExtracted /\ EnabledItems = {}) =>
          /\ toggleCalls = <<>>
          /\ Len(applyCalls) = 1
          /\ applyCalls[1].configs = <<>>
          /\ applyCalls[1].persistent = args.persistent

\* the request disables C, which is not live, and A, which is live and on:
\* apply is called with no record and no toggle is issued
C20_Witness ==
    /\ RestoreExtracted
    /\ pc = "apply_wait"
    /\ DevicePathsOf(args.config) = <<"C", "A">>
    /\ EnabledItems = {}
    /\ Len(currentConfig) = 2
    /\ currentConfig[1].devicePath = "A"
    /\ currentConfig[1].inUse
    /\ toggleCalls = <<>>
    /\ applyCalls = << [configs |-> <<>>, persistent |-> args.persistent] >>

\* number of calls of the raw primitives
PrimitiveCalls == queryCalls + Len(applyCalls) + Len(rawToggleCalls)

\* C4: a restoreDisplayConfig or toggleEnabledDisplays call fails only when a
\* raw primitive reported a nonzero status, and then with a Win32Error that
\* carries that status; a call whose primitives all reported success
\* succeeds, whatever was skipped; after a failure no primitive is called
\* again.
C4_FailsOnlyOnPrimitiveStatus ==
    /\ outcome.status = "rejected" =>
          /\ reported # <<>>
          /\ Last(reported)[2] # 0
          /\ outcome.error = [type |-> "Win32Error", code |-> Last(reported)[2]]
    /\ (pc = "done" /\ Last(reported)[2] = 0) => outcome.status = "resolved"
    /\ \A i \in DOMAIN reported :
          reported[i][2] # 0 =>
              /\ i = Len(reported)
              /\ pc = "done"
              /\ outcome.status = "rejected"
              /\ PrimitiveCalls = Len(reported)
    /\ Len(applyCalls) <= 1 /\ Len(rawToggleCalls) <= 1 /\ queryCalls <= 2

\* a restore that skipped a desired-enabled item (A is live but active with
\* no target mode) and failed because the raw apply primitive reported 87
C4_Witness ==
    /\ pc = "done"
    /\ args.op = "restore"
    /\ "config" \in DOMAIN args
    /\ Len(applyCalls) = 1
    /\ Cardinality(EnabledItems) > Len(applyCalls[1].configs)
    /\ reported = << <<"query", 0>>, <<"apply", 87>> >>
    /\ outcome = Rejected(Win32Error(87))

-----------------------------------------------------------------------------
(* Properties of the display-change cache *)

\* the update ids in the order the updates started: 0 (at load), 1, 2, ...
InOrder(log) == \A i \in DOMAIN log : log[i] = i - 1

\* C5: at most one update is in progress at any moment, and the update that
\* is in progress started only after every update chained before it,
\* the one started at load included, had finished its extraction and its
\* fan-out.
C5_AtMostOneUpdateInProgress ==
    /\ Cardinality(running) <= 1
    /\ \A k \in running : settled = k

\* two pulses arrived while the update started at load was still in progress
C5_Witness ==
    /\ running = {0}
    /\ chained = 2
    /\ pulses = 2
    /\ updateLog = <<0>>

ErrorDeliveries(callbacks, error) ==
    [i \in DOMAIN callbacks |->
        [listener |-> callbacks[i], error |-> error, config |-> UndefinedConfig]]

Count(seq, x) == Cardinality({i \in DOMAIN seq : seq[i] = x})

\* C8: the registration with the change-notification primitive is active
\* exactly when the subscriber set is non-empty; the register primitive is
\* called exactly when the set goes from empty to non-empty, the deregister
\* primitive exactly when it goes from non-empty to empty, and never while
\* no registration is active.
C8_RegistrationFollowsSubscriberSet ==
    /\ [](listening <=> displayChangeCallbacks # <<>>)
    /\ [][/\ Count(nativeCalls', "listen") =
               IF displayChangeCallbacks = <<>> /\ displayChangeCallbacks' # <<>>
               THEN 1 ELSE 0
          /\ Count(nativeCalls', "stop") =
               IF displayChangeCallbacks # <<>> /\ displayChangeCallbacks' = <<>>
               THEN 1 ELSE 0
          /\ Includes(nativeCalls', "stop") => listening]_vars

\* what does hold of the registration: it is active exactly when the set is
\* non-empty, and the register primitive is called exactly on the
\* transitions from empty to non-empty
C8_RegistrationActiveIffSubscribed ==
    /\ [](listening <=> displayChangeCallbacks # <<>>)
    /\ [][Count(nativeCalls', "listen") =
            IF displayChangeCallbacks = <<>> /\ displayChangeCallbacks' # <<>>
            THEN 1 ELSE 0]_vars

\* C9: addDisplayChangeListener invokes the new callback before it returns,
\* with (null, the configuration of the most recent successful extraction of
\* an update), exactly when such a configuration is cached; while no
\* extraction has succeeded the call invokes nothing.
C9_AddDeliversCachedConfig ==
    [][\A listener \in Listeners :
         AddListener(listener) =>
            delivered' =
               IF lastGood # UndefinedConfig
               THEN << [listener |-> listener, error |-> NoError, config |-> lastGood] >>
               ELSE <<>>]_vars

\* the first subscriber has just been added while an empty configuration was
\* cached, and has been handed it
C9_Witness ==
    /\ nativeCalls = <<"listen">>
    /\ delivered = << [listener |-> "L1", error |-> NoError, config |-> <<>>] >>
    /\ currentDisplayConfig = <<>>
    /\ lastGood = <<>>

\* the deliveries of one fan-out of a configuration to the subscribers
ConfigDeliveries(callbacks, config) ==
    [i \in DOMAIN callbacks |->
        [listener |-> callbacks[i], error |-> NoError, config |-> config]]

\* C17: when the extraction of an update succeeds, currentDisplayConfig
\* becomes the extracted list and every callback subscribed at that moment
\* is invoked exactly once with (null, that list) and with no error in that
\* update; no other step writes currentDisplayConfig, which therefore always
\* is the result of the most recent successful extraction of an update.
C17_SuccessDeliversNewConfigOnce ==
    /\ [][UpdateSucceeds =>
            /\ currentDisplayConfig' \in NotifyConfigs
            /\ delivered' = ConfigDeliveries(displayChangeCallbacks,
                                             currentDisplayConfig')]_vars
    /\ [][currentDisplayConfig' # currentDisplayConfig => UpdateSucceeds]_vars
    /\ [](currentDisplayConfig = lastGood)

\* C18: when the change-notification primitive reports a nonzero status to
\* the callback given to it, the failure reaches the subscribers as a
\* Win32Error carrying that status; it is not dropped.
C18_ListenErrorSurfaced ==
    [][PulseError =>
         \E err \in Win32Codes :
            \E i \in DOMAIN delivered' : delivered'[i].error = Win32Error(err)]_vars

\* C19: a callback is not invoked once removeDisplayChangeListener has
\* returned for it, unless it is added again: every callback a step invokes
\* is subscribed before the step or added by it, and within one fan-out L1
\* is not invoked after the invocation of R, whose code removes L1.
C19_RemovedCallbackNotInvoked ==
    [][\A i \in DOMAIN delivered' :
          /\ \/ Includes(displayChangeCallbacks, delivered'[i].listener)
             \/ Includes(displayChangeCallbacks', delivered'[i].listener)
          /\ delivered'[i].listener = "R" =>
                \A j \in DOMAIN delivered' : j > i => delivered'[j].listener # "L1"]_vars

\* what holds of removals made between the steps of an update: a callback
\* that is not in the set when a fan-out begins, and is not added by the
\* step, is not invoked
C19_RemovedBeforeFanOutNotInvoked ==
    [][\A i \in DOMAIN delivered' :
          \/ Includes(displayChangeCallbacks, delivered'[i].listener)
          \/ Includes(displayChangeCallbacks', delivered'[i].listener)]_vars


=============================================================================
